---- MODULE Spec2Model ----
(***************************************************************************)
(* Model of the personal-finance dashboard: the account and transaction    *)
(* collections held by Dashboard, the handlers that mutate them            *)
(* (handleAddTransaction, updateAccountBalance, markAsReceived, the        *)
(* recurring-rule "record payment" button), the derived aggregates         *)
(* (totalNetWorth, pendingIncome) and the TransactionForm component.       *)
(*                                                                         *)
(* JavaScript numbers are modelled as exact rationals <<n, d>> in lowest   *)
(* terms with d > 0; the rounding of IEEE doubles is not modelled.         *)
(* Timestamps are natural numbers of clock ticks.                          *)
(***************************************************************************)
EXTENDS Integers, Sequences, FiniteSets, TLC

\* ------------------------------------------------------------------------
\* Bounds of the model
\* ------------------------------------------------------------------------

\* Largest length of the transaction collection explored.
MaxTx == 3

\* Latest clock value at which a session starts.
MaxNow == 1

\* Largest number of transactions in the collection that were submitted
\* through the form; the others are recorded payments of recurring rules.
MaxSubmits == 1

\* Largest length of the transaction collection while the form is explored
\* field by field (SpecForm).
MaxFormTx == 1

\* Largest number of calls of markAsReceived made as a function, without
\* the row button (SpecHandler).
MaxCalls == 1

\* Clock ticks per calendar day.
TicksPerDay == 2

\* Largest length of the account collection explored.
MaxAccounts == 5

\* Largest number of chat gateway calls outstanding at a time.
MaxChatCalls == 2

\* Largest length of the message list of the chat at which a message is
\* still sent.
MaxMessages == 3

\* Largest length of the recurring-rule collection explored.
MaxRules == 2

\* Days per calendar month and months per calendar year of the model's
\* calendar.
DaysPerMonth == 2

MonthsPerYear == 2

\* Largest number of whole weeks a session is left open.
MaxWeeks == 1

\* ------------------------------------------------------------------------
\* Exact rational arithmetic standing for the JavaScript number type
\* ------------------------------------------------------------------------

RECURSIVE GCD(_, _)
GCD(a, b) == IF b = 0 THEN a ELSE GCD(b, a % b)

Abs(x) == IF x < 0 THEN -x ELSE x

\* The rational n/d in lowest terms with a positive denominator.
Rat(n, d) ==
    LET g == GCD(Abs(n), Abs(d))
        s == IF d < 0 THEN -1 ELSE 1
    IN  << s * (n \div g), s * (d \div g) >>

Num(x) == Rat(x, 1)
Zero == << 0, 1 >>
RAdd(x, y) == Rat(x[1] * y[2] + y[1] * x[2], x[2] * y[2])
RNeg(x) == << -x[1], x[2] >>
RSub(x, y) == RAdd(x, RNeg(y))
RMul(x, y) == Rat(x[1] * y[1], x[2] * y[2])
RDiv(x, y) == Rat(x[1] * y[2], x[2] * y[1])

\* ------------------------------------------------------------------------
\* types.ts
\* ------------------------------------------------------------------------

Currency == {"CNY", "USD", "EUR", "JPY", "HKD", "KRW"}

TransactionType == {"EXPENSE", "INCOME", "TRANSFER"}

TransactionStatus == {"COMPLETED", "PENDING"}

AccountType == {"SAVINGS", "INVESTMENT", "CREDIT", "LOAN"}

EXPENSE_CATEGORIES ==
    << "Food", "Transport", "Housing", "Shopping", "Entertainment",
       "Health", "Insurance", "Family", "Other" >>

INCOME_CATEGORIES ==
    << "Salary", "Bonus", "Part-time", "Investment", "Gift", "Other" >>

\* 1, 7.2, 7.8, 0.048, 0.92, 0.0052
EXCHANGE_RATES ==
    [c \in Currency |->
        CASE c = "CNY" -> Rat(1, 1)
          [] c = "USD" -> Rat(72, 10)
          [] c = "EUR" -> Rat(78, 10)
          [] c = "JPY" -> Rat(48, 1000)
          [] c = "HKD" -> Rat(92, 100)
          [] c = "KRW" -> Rat(52, 10000)]

\* The value of an optional field that is absent (undefined / null).
Undefined == "undefined"

\* An absent timestamp, and the empty string of a date field.
NoDate == -1

\* ------------------------------------------------------------------------
\* Dashboard: initial collections
\* ------------------------------------------------------------------------

\* The optional holdings field of an account is << >> when the field is
\* absent and << list >> when it holds a list.
INITIAL_ACCOUNTS(t) ==
    << [id |-> "1", name |-> "Wallet", type |-> "SAVINGS", currency |-> "CNY",
        balance |-> Num(500), color |-> "#10B981",
        lastCheckIn |-> NoDate, holdings |-> << >>],
       [id |-> "2", name |-> "Alipay Fund", type |-> "INVESTMENT",
        currency |-> "CNY", balance |-> Num(15200), color |-> "#3B82F6",
        lastCheckIn |-> t,
        holdings |-> << << [name |-> "China CSI 300",
                             amount |-> Num(5000), dailyChange |-> Num(120)],
                            [name |-> "Gold ETF", amount |-> Num(10200),
                             dailyChange |-> Num(-50)] >> >>],
       [id |-> "3", name |-> "Huabei", type |-> "CREDIT", currency |-> "CNY",
        balance |-> Num(-1200), color |-> "#F59E0B",
        lastCheckIn |-> NoDate, holdings |-> << >>],
       [id |-> "4", name |-> "Chase Checking", type |-> "SAVINGS",
        currency |-> "USD", balance |-> Num(2000), color |-> "#3B82F6",
        lastCheckIn |-> NoDate, holdings |-> << >>] >>

\* The rule checkRecurring seeds on mount when the user has no rules.
insuranceRule(accs, t) ==
    [id |-> "rec_1", name |-> "Health Insurance", amount |-> Num(500),
     currency |-> "CNY", category |-> "Insurance", frequency |-> "MONTHLY",
     accountId |-> IF Len(accs) > 0 THEN accs[1].id ELSE "1",
     nextDueDate |-> t]

VARIABLES
    accounts,        \* Dashboard state: Account[]
    transactions,    \* Dashboard state: Transaction[], most recent first
    recurringRules,  \* Dashboard state: RecurringRule[]
    baseCurrency,    \* Dashboard state: Currency
    now,             \* the wall clock read by new Date()
    isFormOpen,      \* Dashboard state: the TransactionForm is mounted
    form,            \* the field state of the mounted TransactionForm
    last,            \* the handler that ran last and the row it ran on
    directCalls,     \* calls of markAsReceived made without the row button
    syncStatus,      \* Dashboard state: 'idle' | 'syncing' | 'synced'
    saveTimers,      \* pending 800 ms timeouts, each with the state it closed over
    idleTimers,      \* number of pending 2000 ms reset-to-idle timeouts
    store,           \* localStorage: per user id, << >> or << snapshot >>
    selectedInvestmentAccount,  \* Dashboard state: << >> or << Account >>
    messages,        \* InvestmentChat state: the chat messages
    isLoading,       \* InvestmentChat state
    chatCalls,       \* handleSendMessage calls awaiting processInvestmentChat
    advice,          \* Dashboard state: the advice text
    loadingAdvice,   \* Dashboard state
    lastAdviceDate,  \* Dashboard state: timestamp or NoDate (null)
    adviceCalls,     \* handleGenerateAdvice calls awaiting getFinancialAdvice
    apiKey,          \* import.meta.env.VITE_GOOGLE_API_KEY is set in the build
    gatewayRequests, \* generateContent requests sent and not yet answered
    user,            \* App state: << >> (null) or << User >>
    currentUser,     \* localStorage 'lt_current_user': << >> or << User >>
    writer           \* per user id, the email of the session that wrote its
                     \* localStorage entries last: << >> or << email >>

\* The state the persistence effect depends on and saves.
ledgerVars == << accounts, transactions, recurringRules, baseCurrency >>

persistVars == << syncStatus, saveTimers, idleTimers, store >>

gatewayVars == << selectedInvestmentAccount, messages, isLoading, chatCalls,
                  advice, loadingAdvice, lastAdviceDate, adviceCalls,
                  apiKey, gatewayRequests >>

sessionVars == << user, currentUser, writer >>

vars == << accounts, transactions, recurringRules, baseCurrency, now,
           isFormOpen, form, last, directCalls, syncStatus, saveTimers,
           idleTimers, store, selectedInvestmentAccount, messages, isLoading,
           chatCalls, advice, loadingAdvice, lastAdviceDate, adviceCalls,
           apiKey, gatewayRequests, user, currentUser, writer >>

\* ------------------------------------------------------------------------
\* Small sets the inputs are drawn from
\* ------------------------------------------------------------------------

\* Values Math.random().toString(36).substr(2, 9) can take, in the order
\* in which a value not yet in use is picked.
IdNames == << "a", "b", "c", "d", "e", "f" >>

\* Amounts typed into the form.
FormAmounts == {Num(50)}

\* Currencies picked in the form's currency select.
FormCurrencies == {"CNY", "USD"}

\* Settlement dates typed into the form (NoDate is the empty field).
FormExpectedDates == {NoDate, 2}

\* Holdings lists the chat gateway answers with.
HoldingsReplies ==
    { << >>,
      << [name |-> "China CSI 300", amount |-> Num(5000),
          dailyChange |-> Num(120)],
         [name |-> "Apple", amount |-> Num(150), dailyChange |-> Zero] >> }

\* What a call of the chat gateway comes to: no API key, a rejected request,
\* a response without text, a text that is not JSON, a JSON object without
\* holdings, a JSON object with a holdings list.
ChatReplies ==
    [kind : {"noKey", "networkError", "noText", "notJson", "jsonNoHoldings"},
     holdings : {<< >>}]
    \cup [kind : {"json"}, holdings : HoldingsReplies]

\* What a call of the advice gateway comes to.
AdviceReplies == {"noKey", "networkError", "noText", "text"}

\* What is typed into the email field of the AuthScreen, character by
\* character, the empty field included.
Emails ==
    { << >>,
      << "c", "@", "x" >>,
      << "a", ".", "b", "@", "x" >>,
      << "a", "_", "b", "@", "x" >> }

\* What is typed into the password and name fields.
Passwords == {"", "pw"}

Names == {"", "Ann"}

\* Amounts typed into the "Amount?" prompt of a new recurring rule.
RuleAmounts == {Num(30)}

\* What is entered in the create-account modal: type, currency, balance.
AccountInputs ==
    { [type |-> "INVESTMENT", currency |-> "CNY", balance |-> Zero],
      [type |-> "SAVINGS", currency |-> "USD", balance |-> Num(100)] }

\* ------------------------------------------------------------------------
\* Helpers
\* ------------------------------------------------------------------------

\* new Date(date).toISOString() of a "YYYY-MM-DD" field: midnight of the day.
DayStart(t) == (t \div TicksPerDay) * TicksPerDay

\* Date.prototype.getMonth and getFullYear of a timestamp (local time is
\* taken to be UTC).
MonthTicks == TicksPerDay * DaysPerMonth

YearTicks == MonthTicks * MonthsPerYear

getMonth(t) == (t \div MonthTicks) % MonthsPerYear

getFullYear(t) == t \div YearTicks

\* The number of transactions that came from the form.
NumSubmitted(txs) == Cardinality({i \in 1..Len(txs) : ~txs[i].isRecurring})

\* generateId: a Math.random() string; nothing relates it to the ids in use.
\* Up to renaming it is an id already held by a transaction or the first
\* name not held by any.
FreshId(txs) ==
    LET used == {txs[i].id : i \in 1..Len(txs)}
        k == CHOOSE j \in 1..Len(IdNames) :
                /\ IdNames[j] \notin used
                /\ \A m \in 1..(j - 1) : IdNames[m] \in used
    IN  IdNames[k]

generateId(txs) == {txs[i].id : i \in 1..Len(txs)} \cup {FreshId(txs)}

\* ------------------------------------------------------------------------
\* Dashboard: derived values
\* ------------------------------------------------------------------------

\* Variant: the converted amount is rounded down to a whole number.
normalizeFloor(x, from, to) ==
    LET y == RMul(x, RDiv(EXCHANGE_RATES[to], EXCHANGE_RATES[from]))
    IN  Num(y[1] \div y[2])

\* An amount in currency from expressed in currency to, as the transfer
\* branch and the income and expense sums convert it:
\* amount * (EXCHANGE_RATES[to] / EXCHANGE_RATES[from]).
normalize(x, from, to) ==
    RMul(x, RDiv(EXCHANGE_RATES[to], EXCHANGE_RATES[from]))

\* Variant: the ratio taken the other way round.
RECURSIVE reduceNetWorthInverted(_, _, _)
reduceNetWorthInverted(accs, base, acc) ==
    IF accs = << >> THEN acc
    ELSE LET account == Head(accs)
             val == RMul(account.balance,
                         RDiv(EXCHANGE_RATES[base],
                              EXCHANGE_RATES[account.currency]))
         IN  reduceNetWorthInverted(Tail(accs), base, RAdd(acc, val))

RECURSIVE reduceNetWorth(_, _, _)
reduceNetWorth(accs, base, acc) ==
    IF accs = << >> THEN acc
    ELSE LET account == Head(accs)
             val == RMul(account.balance,
                         RDiv(EXCHANGE_RATES[account.currency],
                              EXCHANGE_RATES[base]))
         IN  reduceNetWorth(Tail(accs), base, RAdd(acc, val))

totalNetWorth(accs, base) == reduceNetWorth(accs, base, Zero)

\* Variant: the filter forgets the status.
RECURSIVE reducePendingAnyStatus(_, _, _)
reducePendingAnyStatus(txs, base, acc) ==
    IF txs = << >> THEN acc
    ELSE LET t == Head(txs)
         IN  IF t.type = "INCOME"
             THEN reducePendingAnyStatus(Tail(txs), base,
                      RAdd(acc, RMul(t.amount,
                                     RDiv(EXCHANGE_RATES[base],
                                          EXCHANGE_RATES[t.currency]))))
             ELSE reducePendingAnyStatus(Tail(txs), base, acc)

RECURSIVE reducePending(_, _, _)
reducePending(txs, base, acc) ==
    IF txs = << >> THEN acc
    ELSE LET t == Head(txs)
         IN  IF t.type = "INCOME" /\ t.status = "PENDING"
             THEN reducePending(Tail(txs), base,
                      RAdd(acc, RMul(t.amount,
                                     RDiv(EXCHANGE_RATES[base],
                                          EXCHANGE_RATES[t.currency]))))
             ELSE reducePending(Tail(txs), base, acc)

pendingIncome(txs, base) == reducePending(txs, base, Zero)

\* Variant: the filter forgets to compare the year.
RECURSIVE reduceMonthlyAnyYear(_, _, _, _)
reduceMonthlyAnyYear(txs, base, t, acc) ==
    IF txs = << >> THEN acc
    ELSE LET tx == Head(txs)
             d == tx.date
         IN  IF tx.type = "EXPENSE" /\ getMonth(d) = getMonth(t)
             THEN reduceMonthlyAnyYear(Tail(txs), base, t,
                      RAdd(acc, RMul(tx.amount,
                                     RDiv(EXCHANGE_RATES[base],
                                          EXCHANGE_RATES[tx.currency]))))
             ELSE reduceMonthlyAnyYear(Tail(txs), base, t, acc)

RECURSIVE reduceMonthly(_, _, _, _)
reduceMonthly(txs, base, t, acc) ==
    IF txs = << >> THEN acc
    ELSE LET tx == Head(txs)
             d == tx.date
         IN  IF /\ tx.type = "EXPENSE"
                /\ getMonth(d) = getMonth(t)
                /\ getFullYear(d) = getFullYear(t)
             THEN reduceMonthly(Tail(txs), base, t,
                      RAdd(acc, RMul(tx.amount,
                                     RDiv(EXCHANGE_RATES[base],
                                          EXCHANGE_RATES[tx.currency]))))
             ELSE reduceMonthly(Tail(txs), base, t, acc)

\* monthlyExpenses computed at time t (const now = new Date()).
monthlyExpenses(txs, base, t) == reduceMonthly(txs, base, t, Zero)

\* The forEach of accountGroups: groups holds the groups made so far, in the
\* order in which their keys were first seen.
RECURSIVE groupAccounts(_, _)
groupAccounts(accs, groups) ==
    IF accs = << >> THEN groups
    ELSE LET acc == Head(accs)
             key == acc.currency \o "-" \o acc.type
             at == {g \in 1..Len(groups) : groups[g].key = key}
             made == IF at = {}
                     THEN Append(groups,
                                 [key |-> key, type |-> acc.type,
                                  currency |-> acc.currency, balance |-> Zero,
                                  count |-> 0, ids |-> << >>])
                     ELSE groups
             g == CHOOSE h \in 1..Len(made) : made[h].key = key
         IN  groupAccounts(Tail(accs),
                 [made EXCEPT ![g] =
                     [@ EXCEPT !.balance = RAdd(@, acc.balance),
                               !.count = @ + 1,
                               !.ids = Append(@, acc.id)]])

accountGroups(accs) == groupAccounts(accs, << >>)

\* ------------------------------------------------------------------------
\* Dashboard: handlers
\* ------------------------------------------------------------------------

\* Variant: the destination branch forgets to compare the account id.
updateAccountBalanceAnyDestination(accs, tx) ==
    [i \in 1..Len(accs) |->
        LET acc == accs[i]
            change == IF tx.type = "INCOME" THEN tx.amount
                      ELSE RNeg(tx.amount)
        IN  IF acc.id = tx.accountId
            THEN [acc EXCEPT !.balance = RAdd(acc.balance, change)]
            ELSE IF tx.type = "TRANSFER"
            THEN [acc EXCEPT !.balance =
                     RAdd(acc.balance,
                          RMul(tx.amount,
                               RDiv(EXCHANGE_RATES[acc.currency],
                                    EXCHANGE_RATES[tx.currency])))]
            ELSE acc]

updateAccountBalance(accs, tx) ==
    [i \in 1..Len(accs) |->
        LET acc == accs[i]
            change == IF tx.type = "TRANSFER" THEN RNeg(tx.amount)
                      ELSE IF tx.type = "INCOME" THEN tx.amount
                      ELSE IF tx.type = "EXPENSE" THEN RNeg(tx.amount)
                      ELSE Zero
        IN  IF acc.id = tx.accountId
            THEN [acc EXCEPT !.balance = RAdd(acc.balance, change)]
            ELSE IF tx.type = "TRANSFER" /\ acc.id = tx.toAccountId
            THEN LET fromCurrency == tx.currency
                     toCurrency == acc.currency
                     rate == RDiv(EXCHANGE_RATES[toCurrency],
                                  EXCHANGE_RATES[fromCurrency])
                 IN  [acc EXCEPT !.balance =
                          RAdd(acc.balance, RMul(tx.amount, rate))]
            ELSE acc]

\* Variant: the balance is updated whatever the status.
handleAddTransactionAnyStatus(data, id) ==
    LET newTx == [data EXCEPT !.id = id]
    IN  /\ transactions' = << newTx >> \o transactions
        /\ accounts' = updateAccountBalance(accounts, newTx)

\* Variant: the new transaction is put at the end.
handleAddTransactionAppend(data, id) ==
    LET newTx == [data EXCEPT !.id = id]
    IN  /\ transactions' = Append(transactions, newTx)
        /\ accounts' = IF newTx.status = "COMPLETED"
                       THEN updateAccountBalance(accounts, newTx)
                       ELSE accounts

\* handleAddTransaction(data) with generateId() returning id.
handleAddTransaction(data, id) ==
    LET newTx == [data EXCEPT !.id = id]
    IN  /\ transactions' = << newTx >> \o transactions
        /\ accounts' = IF newTx.status = "COMPLETED"
                       THEN updateAccountBalance(accounts, newTx)
                       ELSE accounts

\* markAsReceived(tx) once confirm() has returned true.
markAsReceived(tx) ==
    /\ transactions' =
          [j \in 1..Len(transactions) |->
              IF transactions[j].id = tx.id
              THEN [transactions[j] EXCEPT !.status = "COMPLETED",
                                           !.date = now]
              ELSE transactions[j]]
    /\ accounts' = updateAccountBalance(accounts,
                                        [tx EXCEPT !.status = "COMPLETED"])

\* handleCreateAccount(e) with the fields of the modal's form and
\* generateId() returning id.
handleCreateAccount(formData, id) ==
    LET newAccount == [id |-> id, name |-> "New", type |-> formData.type,
                       currency |-> formData.currency,
                       balance |-> formData.balance, color |-> "#000000",
                       lastCheckIn |-> NoDate, holdings |-> << << >> >>]
    IN  accounts' = Append(accounts, newAccount)

\* ------------------------------------------------------------------------
\* AuthScreen and App
\* ------------------------------------------------------------------------

\* The characters [a-zA-Z0-9] that occur in the emails typed.
AlphaNumeric == {"a", "b", "c", "x"}

\* email.replace(/[^a-zA-Z0-9]/g, '_')
replaceNonAlphaNumeric(email) ==
    [k \in 1..Len(email) |->
        IF email[k] \in AlphaNumeric THEN email[k] ELSE "_"]

\* email.split('@')[0]
RECURSIVE splitAtFirst(_)
splitAtFirst(email) ==
    IF email = << >> \/ Head(email) = "@" THEN << >>
    ELSE << Head(email) >> \o splitAtFirst(Tail(email))

\* Variant: a password is not asked for.
authHandleSubmitNoPassword(email, password, name) ==
    IF email # << >>
    THEN << [id |-> replaceNonAlphaNumeric(email), email |-> email,
             username |-> IF name # "" THEN << name >>
                          ELSE splitAtFirst(email)] >>
    ELSE << >>

\* handleSubmit of the AuthScreen: << user >> when onLogin(user) is called,
\* << >> when it is not. A username is the name typed, or else the
\* characters of the email before the '@'.
authHandleSubmit(email, password, name) ==
    IF email # << >> /\ password # ""
    THEN << [id |-> replaceNonAlphaNumeric(email), email |-> email,
             username |-> IF name # "" THEN << name >>
                          ELSE splitAtFirst(email)] >>
    ELSE << >>

\* The ids under which localStorage holds entries lt_<id>_<key>.
UserIds == {replaceNonAlphaNumeric(email) : email \in Emails \ {<< >>}}

\* The user of the sessions that start with the Dashboard mounted.
FirstUser == authHandleSubmit(<< "c", "@", "x" >>, "pw", "")[1]

\* ------------------------------------------------------------------------
\* Dashboard: persistence effect
\* ------------------------------------------------------------------------

\* The values a render closes over and the timeout callback writes.
Snapshot ==
    [accounts |-> accounts, transactions |-> transactions,
     recurringRules |-> recurringRules, baseCurrency |-> baseCurrency]

\* Variant: the effect returns no cleanup, the earlier timeout stays.
persistenceEffectNoCleanup(timers, snap) == Append(timers, snap)

\* The effect re-run after a change of its dependencies: the cleanup of the
\* previous run clears the timeout that run had set, then a new timeout is
\* set that closes over the values of this render.
persistenceEffect(timers, snap) ==
    Append(SubSeq(timers, 1, Len(timers) - 1), snap)

\* A handler has replaced one of the saved collections: the Dashboard
\* renders again and the persistence effect runs.
Persist ==
    /\ syncStatus' = "syncing"
    /\ saveTimers' = persistenceEffect(saveTimers, Snapshot')
    /\ UNCHANGED << idleTimers, store >>

\* ------------------------------------------------------------------------
\* geminiService
\* ------------------------------------------------------------------------

\* Variant: the client is built whether or not there is a key.
getAiClientNoCheck(key) == "client"

\* getAiClient() in a build whose key is set or not: the client, or the
\* error thrown.
getAiClient(key) ==
    IF ~key THEN "Error: API Key missing" ELSE "client"

\* The replies on which the try block throws.
FailedReplies == {"noKey", "networkError", "noText", "notJson"}

\* getFinancialAdvice: the string the promise resolves to.
getFinancialAdvice(reply) ==
    IF reply \in {"noKey", "networkError"} THEN "Service unavailable."
    ELSE IF reply = "noText" THEN "No advice generated."
    ELSE "advice"

\* Variant: the catch block hands back an empty list of holdings.
processInvestmentChatEmptyOnError(reply) ==
    IF reply.kind \in FailedReplies
    THEN [text |-> "Error processing investment data. Please try again.",
          updatedHoldings |-> << << >> >>]
    ELSE IF reply.kind = "jsonNoHoldings"
    THEN [text |-> "reply", updatedHoldings |-> << >>]
    ELSE [text |-> "reply", updatedHoldings |-> << reply.holdings >>]

\* processInvestmentChat: the object the promise resolves to; updatedHoldings
\* is << >> for null or undefined and << list >> for a list.
processInvestmentChat(reply) ==
    IF reply.kind \in FailedReplies
    THEN [text |-> "Error processing investment data. Please try again.",
          updatedHoldings |-> << >>]
    ELSE IF reply.kind = "jsonNoHoldings"
    THEN [text |-> "reply", updatedHoldings |-> << >>]
    ELSE [text |-> "reply", updatedHoldings |-> << reply.holdings >>]

\* ------------------------------------------------------------------------
\* Advice and InvestmentChat handlers
\* ------------------------------------------------------------------------

\* shouldShowAdviceReminder for a last advice date and a current time.
shouldShowAdviceReminder(lastDate, t) ==
    IF lastDate = NoDate THEN TRUE
    ELSE t - lastDate > 7 * TicksPerDay

\* The value of the useMemo: the function is run again only in a render in
\* which lastAdviceDate differs from the one before, that is, at mount and
\* in the render that follows setLastAdviceDate(new Date().toISOString()),
\* whose clock is the one the handler has just read.
shouldShowAdviceReminderMemo ==
    shouldShowAdviceReminder(lastAdviceDate,
                             IF lastAdviceDate = NoDate THEN now
                             ELSE lastAdviceDate)

\* result.updatedHoldings.reduce((sum, h) => sum + h.amount, 0)
RECURSIVE sumHoldings(_, _)
sumHoldings(holdings, sum) ==
    IF holdings = << >> THEN sum
    ELSE sumHoldings(Tail(holdings), RAdd(sum, Head(holdings).amount))

\* The account handleSendMessage passes to onUpdateAccount.
updatedAccount(account, holdings, t) ==
    [account EXCEPT !.holdings = << holdings >>,
                    !.balance = sumHoldings(holdings, Zero),
                    !.lastCheckIn = t]

\* handleUpdateInvestmentAccount of the render in which accs was the account
\* collection: the value it passes to setAccounts.
handleUpdateInvestmentAccount(accs, updated) ==
    [i \in 1..Len(accs) |->
        IF accs[i].id = updated.id THEN updated ELSE accs[i]]

\* The messages of a freshly mounted InvestmentChat.
InitialMessages == << [role |-> "ai", content |-> "welcome"] >>

\* ------------------------------------------------------------------------
\* TransactionForm
\* ------------------------------------------------------------------------

\* The account the currency effect selects, or Undefined when none matches.
AutoSelect(accs, currency) ==
    LET pref == {i \in 1..Len(accs) :
                    /\ accs[i].currency = currency
                    /\ accs[i].type # "INVESTMENT"
                    /\ accs[i].type # "LOAN"}
        any == {i \in 1..Len(accs) : accs[i].currency = currency}
        first(S) == CHOOSE i \in S : \A j \in S : i <= j
    IN  IF pref # {} THEN accs[first(pref)].id
        ELSE IF any # {} THEN accs[first(any)].id
        ELSE Undefined

\* The useState defaults of a freshly mounted form, after its mount effects.
InitialForm(accs, t) ==
    LET match == AutoSelect(accs, "CNY")
    IN  [type |-> "EXPENSE", currency |-> "CNY",
         category |-> EXPENSE_CATEGORIES[1],
         accountId |-> IF match # Undefined THEN match ELSE "",
         toAccountId |-> "", date |-> DayStart(t), expectedDate |-> NoDate,
         status |-> "COMPLETED"]

\* The field state of a form that is not mounted.
NoForm == [type |-> "EXPENSE", currency |-> "CNY", category |-> "",
           accountId |-> "", toAccountId |-> "", date |-> 0,
           expectedDate |-> NoDate, status |-> "COMPLETED"]

\* The object handleSubmit passes to onSave.
handleSubmit(f, amount) ==
    [id |-> Undefined,
     type |-> f.type,
     amount |-> amount,
     currency |-> f.currency,
     category |-> f.category,
     tags |-> << >>,
     accountId |-> f.accountId,
     toAccountId |-> IF f.type = "TRANSFER" THEN f.toAccountId ELSE Undefined,
     date |-> f.date,
     expectedDate |-> IF f.expectedDate # NoDate THEN f.expectedDate
                      ELSE NoDate,
     note |-> "",
     status |-> f.status,
     isAmortized |-> FALSE,
     amortizationMonths |-> 0,
     isRecurring |-> FALSE]

\* Variant: the payment is entered as not yet settled.
recordPaymentPending(rule, t) ==
    [id |-> "",
     date |-> t,
     amount |-> rule.amount,
     currency |-> rule.currency,
     type |-> "EXPENSE",
     category |-> rule.category,
     tags |-> << "Recurring" >>,
     accountId |-> rule.accountId,
     toAccountId |-> Undefined,
     expectedDate |-> NoDate,
     note |-> "Auto-generated: " \o rule.name,
     status |-> "PENDING",
     isAmortized |-> FALSE,
     amortizationMonths |-> 0,
     isRecurring |-> TRUE]

\* The object the "record payment" button of a rule passes on.
recordPayment(rule, t) ==
    [id |-> "",
     date |-> t,
     amount |-> rule.amount,
     currency |-> rule.currency,
     type |-> "EXPENSE",
     category |-> rule.category,
     tags |-> << "Recurring" >>,
     accountId |-> rule.accountId,
     toAccountId |-> Undefined,
     expectedDate |-> NoDate,
     note |-> "Auto-generated: " \o rule.name,
     status |-> "COMPLETED",
     isAmortized |-> FALSE,
     amortizationMonths |-> 0,
     isRecurring |-> TRUE]

\* Field states in which the form is submitted when it is filled in and
\* submitted in one step: the source account stays the one selected for CNY,
\* transfers are made in CNY with the status left at its default.
FormInputs ==
    {f \in [type : TransactionType, currency : FormCurrencies,
            category : {EXPENSE_CATEGORIES[1], INCOME_CATEGORIES[1]},
            accountId : {AutoSelect(accounts, "CNY")},
            toAccountId : {""} \cup {accounts[i].id : i \in 1..Len(accounts)},
            date : {DayStart(now)},
            expectedDate : FormExpectedDates,
            status : TransactionStatus] :
        /\ f.type = "INCOME" <=> f.category = INCOME_CATEGORIES[1]
        /\ f.type # "TRANSFER" => f.toAccountId = ""
        /\ f.type = "TRANSFER" => f.currency = "CNY" /\ f.status = "COMPLETED"
        /\ f.expectedDate # NoDate => f.type = "INCOME" /\ f.status = "PENDING"}

\* ------------------------------------------------------------------------
\* Actions
\* ------------------------------------------------------------------------

\* A new user's Dashboard after its first render and mount effects, the
\* module having been loaded at time t.
InitAt(t) ==
    /\ accounts = INITIAL_ACCOUNTS(t)
    /\ transactions = << >>
    /\ recurringRules = << insuranceRule(INITIAL_ACCOUNTS(t), t) >>
    /\ baseCurrency = "CNY"
    /\ now = t
    /\ isFormOpen = FALSE
    /\ form = NoForm
    /\ last = [op |-> "mount", i |-> 0]
    /\ directCalls = 0
    /\ syncStatus = "syncing"
    /\ saveTimers =
          << [accounts |-> INITIAL_ACCOUNTS(t), transactions |-> << >>,
              recurringRules |->
                  << insuranceRule(INITIAL_ACCOUNTS(t), t) >>,
              baseCurrency |-> "CNY"] >>
    /\ idleTimers = 0
    /\ store = [id \in UserIds |-> << >>]
    /\ user = << FirstUser >>
    /\ currentUser = << FirstUser >>
    /\ writer = [id \in UserIds |-> << >>]
    /\ selectedInvestmentAccount = << >>
    /\ messages = << >>
    /\ isLoading = FALSE
    /\ chatCalls = << >>
    /\ advice = ""
    /\ loadingAdvice = FALSE
    /\ lastAdviceDate = NoDate
    /\ adviceCalls = 0
    /\ gatewayRequests = 0

\* Sessions of a build that has the API key.
Init == \E t \in 0..MaxNow : InitAt(t) /\ apiKey = TRUE

\* Time passes.
Tick ==
    /\ now < MaxNow
    /\ now' = now + 1
    /\ last' = [op |-> "tick", i |-> 0]
    /\ UNCHANGED << accounts, transactions, recurringRules, baseCurrency,
                    isFormOpen, form, directCalls >>
    /\ UNCHANGED persistVars
    /\ UNCHANGED gatewayVars
    /\ UNCHANGED sessionVars

\* The form is opened, filled in and submitted: handleSubmit calls
\* handleAddTransaction through onSave and closes the form.
SubmitTransaction ==
    /\ ~isFormOpen
    /\ Len(transactions) < MaxTx
    /\ NumSubmitted(transactions) < MaxSubmits
    /\ \E f \in FormInputs, amount \in FormAmounts,
          id \in generateId(transactions) :
          handleAddTransaction(handleSubmit(f, amount), id)
    /\ last' = [op |-> "create", i |-> 1]
    /\ UNCHANGED << recurringRules, baseCurrency, now, isFormOpen, form,
                    directCalls >>
    /\ Persist
    /\ UNCHANGED gatewayVars
    /\ UNCHANGED sessionVars

\* The "record payment" button of a recurring rule.
RecordPayment ==
    /\ ~isFormOpen
    /\ selectedInvestmentAccount = << >>
    /\ Len(transactions) < MaxTx
    /\ \E r \in 1..Len(recurringRules), id \in generateId(transactions) :
          handleAddTransaction(recordPayment(recurringRules[r], now), id)
    /\ last' = [op |-> "recordPayment", i |-> 1]
    /\ UNCHANGED << recurringRules, baseCurrency, now, isFormOpen, form,
                    directCalls >>
    /\ Persist
    /\ UNCHANGED gatewayVars
    /\ UNCHANGED sessionVars

\* The "mark received" button, rendered on the rows whose status is PENDING;
\* the user accepts or declines the confirm() dialog.
ClickMarkReceived ==
    /\ ~isFormOpen
    /\ \E i \in 1..Len(transactions) :
          /\ transactions[i].status = "PENDING"
          /\ \/ /\ markAsReceived(transactions[i])
                /\ last' = [op |-> "markAsReceived", i |-> i]
                /\ UNCHANGED << recurringRules, baseCurrency >>
                /\ Persist
             \/ /\ UNCHANGED << accounts, transactions >>
                /\ last' = [op |-> "declined", i |-> i]
                /\ UNCHANGED << recurringRules, baseCurrency >>
                /\ UNCHANGED persistVars
    /\ UNCHANGED << now, isFormOpen, form, directCalls >>
    /\ UNCHANGED gatewayVars
    /\ UNCHANGED sessionVars

\* The clock stands still in the sessions of Spec; SpecClock lets it run.
Next ==
    \/ SubmitTransaction
    \/ RecordPayment
    \/ ClickMarkReceived

Spec == Init /\ [][Next]_vars

\* ------------------------------------------------------------------------
\* Sessions during which time passes (SpecClock)
\* ------------------------------------------------------------------------

NextClock ==
    \/ Tick
    \/ SubmitTransaction
    \/ RecordPayment
    \/ ClickMarkReceived

SpecClock == Init /\ [][NextClock]_vars

\* ------------------------------------------------------------------------
\* The handler called as a function (SpecHandler)
\* ------------------------------------------------------------------------

\* markAsReceived called with a transaction of the collection whatever its
\* status, the confirm() dialog accepted: the function itself tests nothing
\* but the dialog's answer.
CallMarkAsReceived ==
    /\ ~isFormOpen
    /\ directCalls < MaxCalls
    /\ \E i \in 1..Len(transactions) :
          /\ markAsReceived(transactions[i])
          /\ last' = [op |-> "markAsReceivedCall", i |-> i]
    /\ directCalls' = directCalls + 1
    /\ UNCHANGED << recurringRules, baseCurrency, now, isFormOpen, form >>
    /\ Persist
    /\ UNCHANGED gatewayVars
    /\ UNCHANGED sessionVars

NextHandler ==
    \/ Tick
    \/ SubmitTransaction
    \/ RecordPayment
    \/ ClickMarkReceived
    \/ CallMarkAsReceived

SpecHandler == Init /\ [][NextHandler]_vars

\* ------------------------------------------------------------------------
\* The form explored field by field (SpecForm)
\* ------------------------------------------------------------------------

\* Accounts picked by hand in the two account selects.
FormAccountChoices == {"1", "3"}

\* The "+" button of the dashboard mounts the form.
OpenForm ==
    /\ ~isFormOpen
    /\ isFormOpen' = TRUE
    /\ form' = InitialForm(accounts, now)
    /\ last' = [op |-> "openForm", i |-> 0]
    /\ UNCHANGED << accounts, transactions, recurringRules, baseCurrency,
                    now, directCalls >>
    /\ UNCHANGED persistVars
    /\ UNCHANGED gatewayVars
    /\ UNCHANGED sessionVars

\* The close button unmounts it.
CloseForm ==
    /\ isFormOpen
    /\ isFormOpen' = FALSE
    /\ form' = NoForm
    /\ last' = [op |-> "closeForm", i |-> 0]
    /\ UNCHANGED << accounts, transactions, recurringRules, baseCurrency,
                    now, directCalls >>
    /\ UNCHANGED persistVars
    /\ UNCHANGED gatewayVars
    /\ UNCHANGED sessionVars

\* The type toggle; the category follows the type for EXPENSE and INCOME.
SetType ==
    /\ isFormOpen
    /\ \E val \in TransactionType :
          /\ val # form.type
          /\ form' = [form EXCEPT
                 !.type = val,
                 !.category = IF val = "EXPENSE" THEN EXPENSE_CATEGORIES[1]
                              ELSE IF val = "INCOME" THEN INCOME_CATEGORIES[1]
                              ELSE @]
    /\ last' = [op |-> "setType", i |-> 0]
    /\ UNCHANGED << accounts, transactions, recurringRules, baseCurrency,
                    now, isFormOpen, directCalls >>
    /\ UNCHANGED persistVars
    /\ UNCHANGED gatewayVars
    /\ UNCHANGED sessionVars

\* The currency select; the effect on [currency, accounts] then selects the
\* first matching account, if there is one.
SetCurrency ==
    /\ isFormOpen
    /\ \E c \in FormCurrencies :
          /\ c # form.currency
          /\ LET match == AutoSelect(accounts, c)
             IN  form' = [form EXCEPT
                     !.currency = c,
                     !.accountId = IF match # Undefined THEN match ELSE @]
    /\ last' = [op |-> "setCurrency", i |-> 0]
    /\ UNCHANGED << accounts, transactions, recurringRules, baseCurrency,
                    now, isFormOpen, directCalls >>
    /\ UNCHANGED persistVars
    /\ UNCHANGED gatewayVars
    /\ UNCHANGED sessionVars

\* The source account select: one option per account.
SetAccountId ==
    /\ isFormOpen
    /\ \E i \in 1..Len(accounts) :
          /\ accounts[i].id \in FormAccountChoices
          /\ accounts[i].id # form.accountId
          /\ form' = [form EXCEPT !.accountId = accounts[i].id]
    /\ last' = [op |-> "setAccountId", i |-> 0]
    /\ UNCHANGED << accounts, transactions, recurringRules, baseCurrency,
                    now, isFormOpen, directCalls >>
    /\ UNCHANGED persistVars
    /\ UNCHANGED gatewayVars
    /\ UNCHANGED sessionVars

\* The destination select, rendered for TRANSFER: the empty option and one
\* option per account other than the current source account.
SetToAccountId ==
    /\ isFormOpen
    /\ form.type = "TRANSFER"
    /\ \E a \in {""} \cup {accounts[i].id : i \in 1..Len(accounts)} :
          /\ a \in {""} \cup FormAccountChoices
          /\ a # form.accountId
          /\ a # form.toAccountId
          /\ form' = [form EXCEPT !.toAccountId = a]
    /\ last' = [op |-> "setToAccountId", i |-> 0]
    /\ UNCHANGED << accounts, transactions, recurringRules, baseCurrency,
                    now, isFormOpen, directCalls >>
    /\ UNCHANGED persistVars
    /\ UNCHANGED gatewayVars
    /\ UNCHANGED sessionVars

\* The status toggle, rendered for INCOME and EXPENSE.
ToggleStatus ==
    /\ isFormOpen
    /\ form.type \in {"INCOME", "EXPENSE"}
    /\ form' = [form EXCEPT
           !.status = IF @ = "PENDING" THEN "COMPLETED" ELSE "PENDING"]
    /\ last' = [op |-> "toggleStatus", i |-> 0]
    /\ UNCHANGED << accounts, transactions, recurringRules, baseCurrency,
                    now, isFormOpen, directCalls >>
    /\ UNCHANGED persistVars
    /\ UNCHANGED gatewayVars
    /\ UNCHANGED sessionVars

\* The submit button: handleSubmit passes the fields to handleAddTransaction
\* through onSave, then onClose unmounts the form.
SubmitForm ==
    /\ isFormOpen
    /\ Len(transactions) < MaxFormTx
    /\ \E amount \in FormAmounts, id \in generateId(transactions) :
          handleAddTransaction(handleSubmit(form, amount), id)
    /\ isFormOpen' = FALSE
    /\ form' = NoForm
    /\ last' = [op |-> "create", i |-> 1]
    /\ UNCHANGED << recurringRules, baseCurrency, now, directCalls >>
    /\ Persist
    /\ UNCHANGED gatewayVars
    /\ UNCHANGED sessionVars

NextForm ==
    \/ OpenForm
    \/ CloseForm
    \/ SetType
    \/ SetCurrency
    \/ SetAccountId
    \/ SetToAccountId
    \/ ToggleStatus
    \/ SubmitForm

SpecForm == Init /\ [][NextForm]_vars

\* ------------------------------------------------------------------------
\* Persistence timers (SpecPersist)
\* ------------------------------------------------------------------------

\* The create-account modal is opened, filled in and submitted.
CreateAccount ==
    /\ ~isFormOpen
    /\ selectedInvestmentAccount = << >>
    /\ Len(accounts) < MaxAccounts
    /\ \E formData \in AccountInputs, id \in generateId(accounts) :
          handleCreateAccount(formData, id)
    /\ last' = [op |-> "createAccount", i |-> Len(accounts) + 1]
    /\ UNCHANGED << transactions, recurringRules, baseCurrency, now,
                    isFormOpen, form, directCalls >>
    /\ Persist
    /\ UNCHANGED gatewayVars
    /\ UNCHANGED sessionVars

\* An 800 ms timeout fires: its callback writes the values it closed over,
\* shows 'synced' and sets the 2000 ms timeout that resets the status.
SaveFires ==
    /\ user # << >>
    /\ \E k \in 1..Len(saveTimers) :
          /\ store' = [store EXCEPT ![user[1].id] = << saveTimers[k] >>]
          /\ saveTimers' = SubSeq(saveTimers, 1, k - 1) \o
                           SubSeq(saveTimers, k + 1, Len(saveTimers))
    /\ syncStatus' = "synced"
    /\ idleTimers' = idleTimers + 1
    /\ writer' = [writer EXCEPT ![user[1].id] = << user[1].email >>]
    /\ last' = [op |-> "save", i |-> 0]
    /\ UNCHANGED << accounts, transactions, recurringRules, baseCurrency,
                    now, isFormOpen, form, directCalls, user, currentUser >>
    /\ UNCHANGED gatewayVars

\* A 2000 ms timeout fires.
IdleFires ==
    /\ idleTimers > 0
    /\ idleTimers' = idleTimers - 1
    /\ syncStatus' = "idle"
    /\ last' = [op |-> "idle", i |-> 0]
    /\ UNCHANGED << accounts, transactions, recurringRules, baseCurrency,
                    now, isFormOpen, form, directCalls, saveTimers, store >>
    /\ UNCHANGED gatewayVars
    /\ UNCHANGED sessionVars

NextPersist ==
    \/ RecordPayment
    \/ CreateAccount
    \/ SaveFires
    \/ IdleFires

SpecPersist == Init /\ [][NextPersist]_vars

\* ------------------------------------------------------------------------
\* Login and logout (SpecSession, SpecSessionFair)
\* ------------------------------------------------------------------------

\* No Dashboard is mounted: the state of its components does not exist, its
\* pending 800 ms timeout was cleared by the cleanup of the persistence
\* effect, and what its 2000 ms timeouts and gateway calls still do reaches
\* no component.
NoDashboard ==
    /\ accounts' = << >>
    /\ transactions' = << >>
    /\ recurringRules' = << >>
    /\ baseCurrency' = "CNY"
    /\ isFormOpen' = FALSE
    /\ form' = NoForm
    /\ syncStatus' = "idle"
    /\ saveTimers' = << >>
    /\ idleTimers' = 0
    /\ selectedInvestmentAccount' = << >>
    /\ messages' = << >>
    /\ isLoading' = FALSE
    /\ chatCalls' = << >>
    /\ advice' = ""
    /\ loadingAdvice' = FALSE
    /\ lastAdviceDate' = NoDate
    /\ adviceCalls' = 0
    /\ gatewayRequests' = 0

\* The Dashboard of user u is mounted: the state initialisers read the
\* entries of u.id from localStorage (the JSON text of a collection parses
\* back to the collection), the persistence effect skips its first run, and
\* checkRecurring seeds the insurance rule when there is no rule, which
\* makes the persistence effect run.
Mount(u) ==
    LET saved == store[u.id]
        accs == IF saved # << >> THEN saved[1].accounts
                ELSE INITIAL_ACCOUNTS(now)
        rules == IF saved # << >> THEN saved[1].recurringRules ELSE << >>
    IN  /\ accounts' = accs
        /\ transactions' = IF saved # << >> THEN saved[1].transactions
                           ELSE << >>
        /\ baseCurrency' = IF saved # << >> THEN saved[1].baseCurrency
                           ELSE "CNY"
        /\ IF rules = << >>
           THEN /\ recurringRules' = << insuranceRule(accs, now) >>
                /\ syncStatus' = "syncing"
                /\ saveTimers' = << Snapshot' >>
           ELSE /\ recurringRules' = rules
                /\ syncStatus' = "idle"
                /\ saveTimers' = << >>
        /\ isFormOpen' = FALSE
        /\ form' = NoForm
        /\ idleTimers' = 0
        /\ selectedInvestmentAccount' = << >>
        /\ messages' = << >>
        /\ isLoading' = FALSE
        /\ chatCalls' = << >>
        /\ advice' = ""
        /\ loadingAdvice' = FALSE
        /\ lastAdviceDate' = NoDate
        /\ adviceCalls' = 0
        /\ gatewayRequests' = 0

\* handleLogin(u) of App.
handleLogin(u) ==
    /\ currentUser' = << u >>
    /\ user' = << u >>

\* handleLogout() of App.
handleLogout ==
    /\ currentUser' = << >>
    /\ user' = << >>

\* The App as first opened in a browser that holds no entry: the AuthScreen
\* is shown.
InitSession ==
    /\ now \in 0..MaxNow
    /\ user = << >>
    /\ currentUser = << >>
    /\ store = [id \in UserIds |-> << >>]
    /\ writer = [id \in UserIds |-> << >>]
    /\ accounts = << >>
    /\ transactions = << >>
    /\ recurringRules = << >>
    /\ baseCurrency = "CNY"
    /\ isFormOpen = FALSE
    /\ form = NoForm
    /\ last = [op |-> "open", i |-> 0]
    /\ directCalls = 0
    /\ syncStatus = "idle"
    /\ saveTimers = << >>
    /\ idleTimers = 0
    /\ selectedInvestmentAccount = << >>
    /\ messages = << >>
    /\ isLoading = FALSE
    /\ chatCalls = << >>
    /\ advice = ""
    /\ loadingAdvice = FALSE
    /\ lastAdviceDate = NoDate
    /\ adviceCalls = 0
    /\ apiKey = TRUE
    /\ gatewayRequests = 0

\* The form of the AuthScreen is submitted: with an email and a password
\* the user is logged in and the Dashboard of that user is mounted.
Login ==
    /\ user = << >>
    /\ \E email \in Emails, password \in Passwords, name \in Names :
          LET u == authHandleSubmit(email, password, name)
          IN  IF u # << >>
              THEN /\ handleLogin(u[1])
                   /\ Mount(u[1])
                   /\ last' = [op |-> "login", i |-> 0]
              ELSE /\ last' = [op |-> "loginRefused", i |-> 0]
                   /\ UNCHANGED << user, currentUser >>
                   /\ UNCHANGED ledgerVars
                   /\ UNCHANGED << isFormOpen, form, syncStatus, saveTimers,
                                   idleTimers >>
                   /\ UNCHANGED << selectedInvestmentAccount, messages,
                                   isLoading, chatCalls, advice,
                                   loadingAdvice, lastAdviceDate,
                                   adviceCalls, gatewayRequests >>
    /\ UNCHANGED << now, directCalls, store, writer, apiKey >>

\* The logout button of the Dashboard.
Logout ==
    /\ user # << >>
    /\ handleLogout
    /\ NoDashboard
    /\ last' = [op |-> "logout", i |-> 0]
    /\ UNCHANGED << now, directCalls, store, writer, apiKey >>

NextSession ==
    \/ Login
    \/ Logout
    \/ RecordPayment
    \/ SaveFires
    \/ IdleFires

SpecSession == InitSession /\ [][NextSession]_vars

\* A timeout that is pending fires.
SpecSessionFair ==
    /\ SpecSession
    /\ WF_vars(SaveFires)
    /\ WF_vars(IdleFires)

\* ------------------------------------------------------------------------
\* Sessions with back-dated and post-dated transactions (SpecCalendar)
\* ------------------------------------------------------------------------

\* The first instant of the calendar month of t.
MonthStart(t) == (t \div MonthTicks) * MonthTicks

\* Times at which such a session starts: the first instant of the second
\* month of the second year, and the instant after it.
CalendarStarts == {YearTicks + MonthTicks, YearTicks + MonthTicks + 1}

\* Days picked in the form's date field at time t: today, the first day of
\* this month, the last day of the month before, today a year ago, the first
\* day of the next month.
FormDates(t) ==
    {DayStart(t), MonthStart(t), DayStart(MonthStart(t) - 1),
     DayStart(t - YearTicks), MonthStart(t) + MonthTicks}

\* Field states of a form submitted with a date picked by hand.
DatedFormInputs ==
    {f \in [type : {"EXPENSE", "INCOME"}, currency : FormCurrencies,
            category : {EXPENSE_CATEGORIES[1], INCOME_CATEGORIES[1]},
            accountId : {AutoSelect(accounts, "CNY")},
            toAccountId : {""},
            date : FormDates(now),
            expectedDate : {NoDate},
            status : TransactionStatus] :
        f.type = "INCOME" <=> f.category = INCOME_CATEGORIES[1]}

InitCalendar == \E t \in CalendarStarts : InitAt(t) /\ apiKey = TRUE

\* The form is opened, filled in with a date and submitted.
SubmitDated ==
    /\ ~isFormOpen
    /\ Len(transactions) < MaxTx
    /\ NumSubmitted(transactions) < MaxSubmits
    /\ \E f \in DatedFormInputs, amount \in FormAmounts,
          id \in generateId(transactions) :
          handleAddTransaction(handleSubmit(f, amount), id)
    /\ last' = [op |-> "create", i |-> 1]
    /\ UNCHANGED << recurringRules, baseCurrency, now, isFormOpen, form,
                    directCalls >>
    /\ Persist
    /\ UNCHANGED gatewayVars
    /\ UNCHANGED sessionVars

NextCalendar ==
    \/ SubmitDated
    \/ RecordPayment

SpecCalendar == InitCalendar /\ [][NextCalendar]_vars

\* ------------------------------------------------------------------------
\* Recurring rules added by hand (SpecRules)
\* ------------------------------------------------------------------------

\* The "add expense" button of the recurring card: both prompts answered,
\* generateId() returning id.
AddRule ==
    /\ ~isFormOpen
    /\ Len(recurringRules) < MaxRules
    /\ \E amount \in RuleAmounts, id \in generateId(recurringRules) :
          recurringRules' =
             Append(recurringRules,
                    [id |-> id, name |-> "Rent", amount |-> amount,
                     currency |-> baseCurrency, category |-> "Housing",
                     frequency |-> "MONTHLY", nextDueDate |-> now,
                     accountId |-> accounts[1].id])
    /\ last' = [op |-> "addRule", i |-> Len(recurringRules) + 1]
    /\ UNCHANGED << accounts, transactions, baseCurrency, now, isFormOpen,
                    form, directCalls >>
    /\ Persist
    /\ UNCHANGED gatewayVars
    /\ UNCHANGED sessionVars

NextRules ==
    \/ AddRule
    \/ RecordPayment

SpecRules == Init /\ [][NextRules]_vars

\* ------------------------------------------------------------------------
\* The advice gateway (SpecAdvice)
\* ------------------------------------------------------------------------

\* The "generate analysis" button, disabled while loadingAdvice is set:
\* handleGenerateAdvice up to its await on the gateway. Without a key
\* getAiClient throws before anything is sent and the handler runs to its
\* end before any other event.
GenerateAdvice ==
    /\ ~isFormOpen
    /\ selectedInvestmentAccount = << >>
    /\ ~loadingAdvice
    /\ IF getAiClient(apiKey) = "client"
       THEN /\ loadingAdvice' = TRUE
            /\ adviceCalls' = adviceCalls + 1
            /\ gatewayRequests' = gatewayRequests + 1
            /\ last' = [op |-> "generateAdvice", i |-> 0]
            /\ UNCHANGED << advice, lastAdviceDate >>
       ELSE /\ advice' = getFinancialAdvice("noKey")
            /\ lastAdviceDate' = now
            /\ last' = [op |-> "adviceNoKey", i |-> 0]
            /\ UNCHANGED << loadingAdvice, adviceCalls, gatewayRequests >>
    /\ UNCHANGED << accounts, transactions, recurringRules, baseCurrency,
                    now, isFormOpen, form, directCalls >>
    /\ UNCHANGED persistVars
    /\ UNCHANGED << selectedInvestmentAccount, messages, isLoading,
                    chatCalls, apiKey >>
    /\ UNCHANGED sessionVars

\* The gateway answers or rejects the request: getFinancialAdvice resolves
\* and handleGenerateAdvice runs on after its await.
AdviceReturns ==
    /\ adviceCalls > 0
    /\ \E reply \in AdviceReplies \ {"noKey"} :
          /\ advice' = getFinancialAdvice(reply)
          /\ last' = [op |-> IF reply = "networkError"
                             THEN "adviceFailed" ELSE "adviceReturned",
                      i |-> 0]
    /\ lastAdviceDate' = now
    /\ loadingAdvice' = FALSE
    /\ adviceCalls' = adviceCalls - 1
    /\ gatewayRequests' = gatewayRequests - 1
    /\ UNCHANGED << accounts, transactions, recurringRules, baseCurrency,
                    now, isFormOpen, form, directCalls >>
    /\ UNCHANGED persistVars
    /\ UNCHANGED << selectedInvestmentAccount, messages, isLoading,
                    chatCalls, apiKey >>
    /\ UNCHANGED sessionVars

\* The Dashboard is left open for a week.
WeekPasses ==
    /\ now < MaxWeeks * 7 * TicksPerDay
    /\ now' = now + 7 * TicksPerDay
    /\ last' = [op |-> "week", i |-> 0]
    /\ UNCHANGED << accounts, transactions, recurringRules, baseCurrency,
                    isFormOpen, form, directCalls >>
    /\ UNCHANGED persistVars
    /\ UNCHANGED gatewayVars
    /\ UNCHANGED sessionVars

NextAdvice ==
    \/ Tick
    \/ WeekPasses
    \/ RecordPayment
    \/ GenerateAdvice
    \/ AdviceReturns

SpecAdvice == Init /\ [][NextAdvice]_vars

\* ------------------------------------------------------------------------
\* The investment chat (SpecChat, SpecChatLedger)
\* ------------------------------------------------------------------------

\* A check-in button of an INVESTMENT account mounts the chat on it.
OpenChat ==
    /\ ~isFormOpen
    /\ selectedInvestmentAccount = << >>
    /\ \E i \in 1..Len(accounts) :
          /\ accounts[i].type = "INVESTMENT"
          /\ selectedInvestmentAccount' = << accounts[i] >>
          /\ last' = [op |-> "openChat", i |-> i]
    /\ messages' = InitialMessages
    /\ isLoading' = FALSE
    /\ UNCHANGED << accounts, transactions, recurringRules, baseCurrency,
                    now, isFormOpen, form, directCalls >>
    /\ UNCHANGED persistVars
    /\ UNCHANGED << chatCalls, advice, loadingAdvice, lastAdviceDate,
                    adviceCalls, apiKey, gatewayRequests >>
    /\ UNCHANGED sessionVars

\* The close button unmounts the chat; the calls it has made stay
\* outstanding and no longer reach a mounted component.
CloseChat ==
    /\ selectedInvestmentAccount # << >>
    /\ selectedInvestmentAccount' = << >>
    /\ messages' = << >>
    /\ isLoading' = FALSE
    /\ chatCalls' = [k \in 1..Len(chatCalls) |->
                        [chatCalls[k] EXCEPT !.live = FALSE]]
    /\ last' = [op |-> "closeChat", i |-> 0]
    /\ UNCHANGED << accounts, transactions, recurringRules, baseCurrency,
                    now, isFormOpen, form, directCalls >>
    /\ UNCHANGED persistVars
    /\ UNCHANGED << advice, loadingAdvice, lastAdviceDate, adviceCalls,
                    apiKey, gatewayRequests >>
    /\ UNCHANGED sessionVars

\* handleSendMessage after its await, for a call made with the account prop
\* and the onUpdateAccount of the render the call record holds, msgs and
\* loading being the chat's state as the continuation finds it.
handleSendMessageResumed(call, result, msgs, loading) ==
    LET mounted == selectedInvestmentAccount # << >>
        said == [role |-> "ai", content |-> result.text]
    IN  IF result.updatedHoldings # << >>
        THEN LET updated ==
                    updatedAccount(call.account,
                                   result.updatedHoldings[1], now)
             IN  /\ accounts' = handleUpdateInvestmentAccount(
                                    call.accounts, updated)
                 /\ selectedInvestmentAccount' = << updated >>
                 /\ isLoading' = IF call.live \/ ~mounted THEN FALSE
                                 ELSE loading
                 /\ messages' =
                       IF call.live THEN Append(msgs, said)
                       ELSE IF mounted THEN msgs
                       ELSE InitialMessages
                 /\ UNCHANGED << transactions, recurringRules,
                                 baseCurrency >>
                 /\ Persist
        ELSE /\ UNCHANGED << accounts, selectedInvestmentAccount,
                             transactions, recurringRules,
                             baseCurrency >>
             /\ UNCHANGED persistVars
             /\ isLoading' = IF call.live THEN FALSE ELSE loading
             /\ messages' = IF call.live THEN Append(msgs, said)
                            ELSE msgs

\* The send button or the Enter key with a text typed in: handleSendMessage
\* up to its await on the gateway. The call keeps the account prop and the
\* onUpdateAccount of this render, which closes over the account collection
\* of this render. Without a key getAiClient throws before anything is
\* sent and the handler runs to its end before any other event.
SendMessage ==
    /\ selectedInvestmentAccount # << >>
    /\ Len(chatCalls) < MaxChatCalls
    /\ Len(messages) < MaxMessages
    /\ LET call == [account |-> selectedInvestmentAccount[1],
                    accounts |-> accounts, live |-> TRUE]
           asked == Append(messages, [role |-> "user", content |-> "msg"])
       IN  IF getAiClient(apiKey) = "client"
           THEN /\ messages' = asked
                /\ isLoading' = TRUE
                /\ chatCalls' = Append(chatCalls, call)
                /\ gatewayRequests' = gatewayRequests + 1
                /\ last' = [op |-> "sendMessage", i |-> Len(chatCalls) + 1]
                /\ UNCHANGED << accounts, transactions, recurringRules,
                                baseCurrency, selectedInvestmentAccount >>
                /\ UNCHANGED persistVars
           ELSE /\ handleSendMessageResumed(
                      call,
                      processInvestmentChat([kind |-> "noKey",
                                             holdings |-> << >>]),
                      asked, TRUE)
                /\ last' = [op |-> "chatNoKey", i |-> 0]
                /\ UNCHANGED << chatCalls, gatewayRequests >>
    /\ UNCHANGED << now, isFormOpen, form, directCalls >>
    /\ UNCHANGED << advice, loadingAdvice, lastAdviceDate, adviceCalls,
                    apiKey >>
    /\ UNCHANGED sessionVars

\* The gateway answers or rejects the request of one of the outstanding
\* calls: processInvestmentChat resolves and handleSendMessage runs on.
ChatResponse ==
    /\ \E k \in 1..Len(chatCalls), reply \in ChatReplies :
          /\ reply.kind # "noKey"
          /\ chatCalls' = SubSeq(chatCalls, 1, k - 1) \o
                          SubSeq(chatCalls, k + 1, Len(chatCalls))
          /\ last' = [op |-> IF reply.kind \in FailedReplies
                             THEN "chatFailed"
                             ELSE IF reply.kind = "jsonNoHoldings"
                             THEN "chatTextOnly" ELSE "chatUpdated",
                      i |-> k]
          /\ handleSendMessageResumed(chatCalls[k],
                                      processInvestmentChat(reply),
                                      messages, isLoading)
    /\ gatewayRequests' = gatewayRequests - 1
    /\ UNCHANGED << now, isFormOpen, form, directCalls >>
    /\ UNCHANGED << advice, loadingAdvice, lastAdviceDate, adviceCalls,
                    apiKey >>
    /\ UNCHANGED sessionVars

NextChat ==
    \/ Tick
    \/ OpenChat
    \/ CloseChat
    \/ SendMessage
    \/ ChatResponse

SpecChat == Init /\ [][NextChat]_vars

NextChatLedger ==
    \/ OpenChat
    \/ CloseChat
    \/ SendMessage
    \/ ChatResponse
    \/ CreateAccount

SpecChatLedger == Init /\ [][NextChatLedger]_vars

NextChatPayments ==
    \/ OpenChat
    \/ CloseChat
    \/ SendMessage
    \/ ChatResponse
    \/ RecordPayment

SpecChatPayments == Init /\ [][NextChatPayments]_vars

\* ------------------------------------------------------------------------
\* Both gateways, in builds with and without the API key (SpecGateway)
\* ------------------------------------------------------------------------

InitGateway ==
    \E t \in 0..MaxNow, key \in BOOLEAN : InitAt(t) /\ apiKey = key

NextGateway ==
    \/ GenerateAdvice
    \/ AdviceReturns
    \/ OpenChat
    \/ CloseChat
    \/ SendMessage
    \/ ChatResponse

SpecGateway == InitGateway /\ [][NextGateway]_vars

\* ------------------------------------------------------------------------
\* Properties
\* ------------------------------------------------------------------------

\* The step just taken created a transaction (form or recurring rule).
CreateStep == last'.op \in {"create", "recordPayment"}

\* The amount a completed transaction adds to the balance of one account:
\* the source account loses the amount (gains it for INCOME); the
\* destination of a TRANSFER, when it is another account, gains the amount
\* times rate(its currency) / rate(transaction currency).
TxEffect(tx, acc) ==
    IF acc.id = tx.accountId
    THEN IF tx.type = "INCOME" THEN tx.amount ELSE RNeg(tx.amount)
    ELSE IF tx.type = "TRANSFER" /\ acc.id = tx.toAccountId
    THEN RDiv(RMul(tx.amount, EXCHANGE_RATES[acc.currency]),
              EXCHANGE_RATES[tx.currency])
    ELSE Zero

\* The same amount when source and destination parts are both applied to
\* the account they name.
SourcePart(tx, acc) ==
    IF acc.id = tx.accountId
    THEN IF tx.type = "INCOME" THEN tx.amount ELSE RNeg(tx.amount)
    ELSE Zero

DestinationPart(tx, acc) ==
    IF tx.type = "TRANSFER" /\ acc.id = tx.toAccountId
    THEN RDiv(RMul(tx.amount, EXCHANGE_RATES[acc.currency]),
              EXCHANGE_RATES[tx.currency])
    ELSE Zero

\* The sum of the values of f over the index set S.
RECURSIVE SumValues(_, _)
SumValues(f, S) ==
    IF S = {} THEN Zero
    ELSE LET x == CHOOSE y \in S : TRUE
         IN  RAdd(f[x], SumValues(f, S \ {x}))

C2_CreateAppliesEffectOnce ==
    [][CreateStep =>
         LET newTx == transactions'[1]
         IN  /\ Len(accounts') = Len(accounts)
             /\ \A i \in 1..Len(accounts) :
                   accounts'[i].balance =
                      IF newTx.status = "COMPLETED"
                      THEN RAdd(accounts[i].balance,
                                TxEffect(newTx, accounts[i]))
                      ELSE accounts[i].balance]_vars

\* A PENDING income was created on top of a recorded payment of 500: the
\* wallet went from 500 to 0 with the payment and stayed there.
C2_Witness ==
    /\ last.op = "create"
    /\ Len(transactions) = 2
    /\ transactions[1].status = "PENDING"
    /\ transactions[1].type = "INCOME"
    /\ transactions[2].status = "COMPLETED"
    /\ transactions[2].isRecurring
    /\ accounts[1].balance = Zero

\* C3: EXPENSE subtracts the amount from the source account, INCOME adds it,
\* TRANSFER subtracts it from the source account and adds amount *
\* rate(destination currency) / rate(transaction currency) to the
\* destination account.
C3_BalanceEffect ==
    [][(CreateStep /\ transactions'[1].status = "COMPLETED") =>
         LET newTx == transactions'[1]
         IN  \A i \in 1..Len(accounts) :
                accounts'[i].balance =
                   RAdd(accounts[i].balance,
                        RAdd(SourcePart(newTx, accounts[i]),
                             DestinationPart(newTx, accounts[i])))]_vars

\* The transaction whose balance effect the step just taken applied.
AppliedTx ==
    IF last'.op = "markAsReceived" THEN transactions[last'.i]
    ELSE transactions'[1]

\* C4: applying a balance effect changes the balance of at most the two
\* accounts named by the transaction and nothing else of any account.
C4_EffectFrame ==
    [][(CreateStep \/ last'.op = "markAsReceived") =>
         LET tx == AppliedTx
             named == {tx.accountId} \cup
                      (IF tx.type = "TRANSFER" THEN {tx.toAccountId} ELSE {})
         IN  /\ Len(accounts') = Len(accounts)
             /\ \A i \in 1..Len(accounts) :
                   /\ accounts[i].id \notin named
                         => accounts'[i] = accounts[i]
                   /\ [accounts'[i] EXCEPT !.balance = accounts[i].balance]
                         = accounts[i]
             /\ Cardinality({i \in 1..Len(accounts) :
                               accounts'[i] # accounts[i]}) <= 2]_vars

\* A transfer of 50 CNY from the wallet to the USD account was created.
C4_Witness ==
    /\ last.op = "create"
    /\ transactions[1].type = "TRANSFER"
    /\ transactions[1].accountId = "1"
    /\ transactions[1].toAccountId = "4"
    /\ accounts[1].balance = Num(450)
    /\ accounts[4].balance = Num(2360)
    /\ accounts[2].balance = Num(15200)
    /\ accounts[3].balance = Num(-1200)

\* Accounts A (CNY, 1000) and B (USD, 100).
ExampleAccounts ==
    << [id |-> "A", name |-> "A", type |-> "SAVINGS", currency |-> "CNY",
        balance |-> Num(1000), color |-> "#000000",
        lastCheckIn |-> NoDate, holdings |-> << >>],
       [id |-> "B", name |-> "B", type |-> "SAVINGS", currency |-> "USD",
        balance |-> Num(100), color |-> "#000000",
        lastCheckIn |-> NoDate, holdings |-> << >>] >>

\* C5 as stated: net worth is the sum over the accounts of balance *
\* rate(base currency) / rate(account currency); in the example B
\* contributes 100 * 1 / 7.2.
C5_NetWorthAsStated ==
    /\ totalNetWorth(accounts, baseCurrency) =
          SumValues([i \in 1..Len(accounts) |->
                        RDiv(RMul(accounts[i].balance,
                                  EXCHANGE_RATES[baseCurrency]),
                             EXCHANGE_RATES[accounts[i].currency])],
                    1..Len(accounts))
    /\ totalNetWorth(ExampleAccounts, "CNY") =
          RAdd(Num(1000), RDiv(Num(100), Rat(72, 10)))

\* The example computed by the code: 1720 in all, of which B brings 720.
C5_Example ==
    /\ totalNetWorth(ExampleAccounts, "CNY") = Num(1720)
    /\ RSub(totalNetWorth(ExampleAccounts, "CNY"),
            totalNetWorth(SubSeq(ExampleAccounts, 1, 1), "CNY")) = Num(720)

\* Base currencies the aggregates are evaluated in.
ReportCurrencies == {"CNY", "USD", "JPY"}

\* C5 as amended: net worth is the sum over the accounts of balance *
\* rate(account currency) / rate(base currency); in the example B
\* contributes 100 * 7.2 / 1 = 720.
C5_NetWorth ==
    /\ \A base \in ReportCurrencies :
          totalNetWorth(accounts, base) =
             SumValues([i \in 1..Len(accounts) |->
                           RDiv(RMul(accounts[i].balance,
                                     EXCHANGE_RATES[accounts[i].currency]),
                                EXCHANGE_RATES[base])],
                       1..Len(accounts))
    /\ C5_Example

\* The USD account holds 2360 after a transfer and the net worth in CNY is
\* 450 + 15200 - 1200 + 2360 * 7.2.
C5_Witness ==
    /\ baseCurrency = "CNY"
    /\ accounts[4].currency = "USD"
    /\ accounts[4].balance = Num(2360)
    /\ accounts[1].balance = Num(450)
    /\ totalNetWorth(accounts, baseCurrency) = Num(31442)

\* C6: Create puts the new transaction at the head of the collection and
\* keeps the existing transactions after it in their order; the collection
\* grows by one.
C6_CreatePrepends ==
    [][CreateStep =>
         /\ Len(transactions') = Len(transactions) + 1
         /\ \A j \in 1..Len(transactions) :
               transactions'[j + 1] = transactions[j]
         /\ transactions'[1].date \in {now, DayStart(now)}]_vars

\* A transaction was created on top of two existing, different ones.
C6_Witness ==
    /\ last.op \in {"create", "recordPayment"}
    /\ Len(transactions) = 3
    /\ transactions[2].id # transactions[3].id
    /\ transactions[2].type # transactions[3].type

\* C7: the transactions of the collection have pairwise distinct ids.
C7_DistinctIds ==
    \A i, j \in 1..Len(transactions) :
        i # j => transactions[i].id # transactions[j].id

\* C8: mark-received on a PENDING transaction sets its status to COMPLETED
\* and its date to the current time, applies its balance effect as a
\* creation with status COMPLETED would, and leaves every other transaction
\* unchanged; a declined confirmation changes nothing.
C8_MarkReceived ==
    [][/\ last'.op = "markAsReceived" =>
            LET i == last'.i
                tx == transactions[i]
            IN  /\ tx.status = "PENDING"
                /\ Len(transactions') = Len(transactions)
                /\ transactions'[i] =
                      [tx EXCEPT !.status = "COMPLETED", !.date = now]
                /\ \A k \in 1..Len(accounts) :
                      accounts'[k].balance =
                         RAdd(accounts[k].balance,
                              TxEffect(tx, accounts[k]))
                /\ \A j \in 1..Len(transactions) :
                      j # i => transactions'[j] = transactions[j]
       /\ last'.op = "declined" =>
            /\ transactions' = transactions
            /\ accounts' = accounts]_vars

\* C9: every TRANSFER of the collection has a source account id and a
\* destination account id, and the two differ.
C9_TransferEndpoints ==
    \A i \in 1..Len(transactions) :
        transactions[i].type = "TRANSFER" =>
            /\ transactions[i].accountId \notin {"", Undefined}
            /\ transactions[i].toAccountId \notin {"", Undefined}
            /\ transactions[i].accountId # transactions[i].toAccountId

\* A PENDING INCOME of 500 CNY with the expected date e.
ExamplePending(e) ==
    [id |-> "x", type |-> "INCOME", amount |-> Num(500), currency |-> "CNY",
     category |-> INCOME_CATEGORIES[1], tags |-> << >>, accountId |-> "1",
     toAccountId |-> Undefined, date |-> 0, expectedDate |-> e, note |-> "",
     status |-> "PENDING", isAmortized |-> FALSE, amortizationMonths |-> 0,
     isRecurring |-> FALSE]

\* The normalized amounts of the PENDING INCOME transactions of txs.
PendingSum(txs, base) ==
    SumValues([i \in 1..Len(txs) |->
                  RDiv(RMul(txs[i].amount, EXCHANGE_RATES[base]),
                       EXCHANGE_RATES[txs[i].currency])],
              {i \in 1..Len(txs) :
                  txs[i].type = "INCOME" /\ txs[i].status = "PENDING"})

\* Expected dates tried on every transaction.
ExpectedDateSamples == {NoDate, 0, MaxNow + 2}

\* The example computed by the code, whatever the expected date.
C10_Example ==
    \A e \in ExpectedDateSamples :
        pendingIncome(<< ExamplePending(e) >>, "CNY") = Num(500)

\* C10 (state part): pending income is the sum of amount * rate(base) /
\* rate(currency) over exactly the PENDING INCOME transactions, whatever
\* their expected dates; a PENDING INCOME of 500 CNY contributes 500.
C10_PendingIncomeSum ==
    /\ \A base \in ReportCurrencies :
          pendingIncome(transactions, base) = PendingSum(transactions, base)
    /\ \A e \in ExpectedDateSamples :
          /\ pendingIncome(
                [i \in 1..Len(transactions) |->
                    [transactions[i] EXCEPT !.expectedDate = e]],
                baseCurrency) = pendingIncome(transactions, baseCurrency)
          /\ pendingIncome(<< ExamplePending(e) >> \o transactions, "CNY") =
                RAdd(Num(500), pendingIncome(transactions, "CNY"))
    /\ C10_Example

\* C10: the state part holds always, and a PENDING INCOME that is marked
\* received no longer contributes: pending income then is the sum over the
\* PENDING INCOME transactions that do not carry its id.
C10_PendingIncome ==
    /\ []C10_PendingIncomeSum
    /\ [][(/\ last'.op = "markAsReceived"
           /\ transactions[last'.i].type = "INCOME"
           /\ transactions[last'.i].status = "PENDING") =>
            LET tx == transactions[last'.i]
                waiting == {j \in 1..Len(transactions) :
                              /\ transactions[j].type = "INCOME"
                              /\ transactions[j].status = "PENDING"
                              /\ transactions[j].id # tx.id}
            IN  /\ transactions'[last'.i].status = "COMPLETED"
                /\ pendingIncome(transactions', baseCurrency) =
                      SumValues(
                         [j \in 1..Len(transactions) |->
                             RDiv(RMul(transactions[j].amount,
                                       EXCHANGE_RATES[baseCurrency]),
                                  EXCHANGE_RATES[transactions[j].currency])],
                         waiting)]_vars

\* A PENDING INCOME in USD with an expected date, entered after a recorded
\* payment, was marked received: pending income is back to zero.
C10_Witness ==
    /\ last.op = "markAsReceived"
    /\ Len(transactions) = 2
    /\ transactions[last.i].type = "INCOME"
    /\ transactions[last.i].currency = "USD"
    /\ transactions[last.i].expectedDate # NoDate
    /\ transactions[last.i].status = "COMPLETED"
    /\ pendingIncome(transactions, baseCurrency) = Zero

\* The step just taken replaced one of the saved collections.
MutationStep ==
    last'.op \in {"create", "recordPayment", "markAsReceived",
                  "markAsReceivedCall", "createAccount", "addRule",
                  "chatUpdated"}

\* C14: at most one save is pending; a mutation that arrives while a save is
\* pending cancels that save, which is then no longer among the timeouts
\* that can fire, and leaves one pending save that closes over the state as
\* of the mutation; a save that executes writes the in-memory state, which is
\* the state as of the last mutation.
C14_DebouncedSave ==
    /\ [](Len(saveTimers) <= 1)
    /\ [][MutationStep =>
            /\ saveTimers' = << Snapshot' >>
            /\ \A k \in 1..Len(saveTimers) :
                  saveTimers[k] # Snapshot' =>
                     \A m \in 1..Len(saveTimers') :
                        saveTimers'[m] # saveTimers[k]]_vars
    /\ [][last'.op = "save" =>
            /\ Len(saveTimers) = 1
            /\ store' = [store EXCEPT ![user[1].id] = << Snapshot >>]
            /\ saveTimers' = << >>]_vars

\* Two payments were recorded before any save fired; the one save that then
\* executed wrote both of them.
C14_Witness ==
    /\ last.op = "save"
    /\ Len(transactions) = 2
    /\ store[user[1].id] = << Snapshot >>
    /\ saveTimers = << >>
    /\ idleTimers = 1
    /\ syncStatus = "synced"

\* An EXPENSE of 50 CNY dated d.
ExampleExpense(d) ==
    [id |-> "x", type |-> "EXPENSE", amount |-> Num(50), currency |-> "CNY",
     category |-> EXPENSE_CATEGORIES[1], tags |-> << >>, accountId |-> "1",
     toAccountId |-> Undefined, date |-> d, expectedDate |-> NoDate,
     note |-> "", status |-> "COMPLETED", isAmortized |-> FALSE,
     amortizationMonths |-> 0, isRecurring |-> FALSE]

\* The EXPENSE transactions of txs dated from the first instant of the month
\* of t up to, and not including, the first instant of the next month.
InMonth(txs, t) ==
    {i \in 1..Len(txs) :
        /\ txs[i].type = "EXPENSE"
        /\ (t \div MonthTicks) * MonthTicks <= txs[i].date
        /\ txs[i].date < (t \div MonthTicks) * MonthTicks + MonthTicks}

\* C11: monthly expenses computed now is the sum of amount * rate(base) /
\* rate(currency) over exactly the EXPENSE transactions dated in the calendar
\* month and year of now; an EXPENSE dated at the first instant of the month
\* counts, one dated the instant before or a year earlier does not.
C11_MonthlyExpenses ==
    /\ \A base \in ReportCurrencies :
          monthlyExpenses(transactions, base, now) =
             SumValues([i \in 1..Len(transactions) |->
                           RDiv(RMul(transactions[i].amount,
                                     EXCHANGE_RATES[base]),
                                EXCHANGE_RATES[transactions[i].currency])],
                       InMonth(transactions, now))
    /\ LET first == (now \div MonthTicks) * MonthTicks
           m == monthlyExpenses(transactions, "CNY", now)
       IN  /\ monthlyExpenses(<< ExampleExpense(first) >> \o transactions,
                              "CNY", now) = RAdd(Num(50), m)
           /\ monthlyExpenses(<< ExampleExpense(first - 1) >> \o transactions,
                              "CNY", now) = m
           /\ monthlyExpenses(<< ExampleExpense(now - YearTicks) >>
                              \o transactions, "CNY", now) = m

\* Now is the instant after the first of the month; an EXPENSE of 50 USD
\* dated at the first instant of the month was entered after a recorded
\* payment of 500 CNY; in CNY the month's expenses are 500 + 50 / 7.2.
C11_Witness ==
    /\ now = YearTicks + MonthTicks + 1
    /\ Len(transactions) = 2
    /\ transactions[1].type = "EXPENSE"
    /\ transactions[1].currency = "USD"
    /\ transactions[1].date = YearTicks + MonthTicks
    /\ transactions[2].isRecurring
    /\ monthlyExpenses(transactions, "CNY", now) =
          RAdd(Num(500), RDiv(Num(50), Rat(72, 10)))

\* The set of the elements of a sequence.
Elements(seq) == {seq[k] : k \in 1..Len(seq)}

\* C12: the groups partition the accounts by (currency, type): the ids of
\* all groups together are the ids of all accounts, no id is listed in two
\* groups, the count of a group is the length of its id list and its balance
\* is the sum of the balances of the accounts of its currency and type.
C12_GroupsPartition ==
    LET groups == accountGroups(accounts)
    IN  /\ UNION {Elements(groups[g].ids) : g \in 1..Len(groups)} =
              {accounts[i].id : i \in 1..Len(accounts)}
        /\ \A g, h \in 1..Len(groups) :
              g # h => Elements(groups[g].ids) \cap Elements(groups[h].ids)
                          = {}
        /\ \A g \in 1..Len(groups) :
              /\ groups[g].count = Len(groups[g].ids)
              /\ groups[g].balance =
                    SumValues([i \in 1..Len(accounts) |-> accounts[i].balance],
                              {i \in 1..Len(accounts) :
                                  /\ accounts[i].currency = groups[g].currency
                                  /\ accounts[i].type = groups[g].type})

\* Amounts the conversion is tried on.
AmountSamples == {Zero, Num(100), Num(-1200), Rat(1999, 100)}

\* Conversion composes and converting to the same currency is the identity,
\* for every currency of the rate table.
ConversionComposes ==
    \A x \in AmountSamples : \A a, b, c \in Currency :
        /\ normalize(normalize(x, a, b), b, c) = normalize(x, a, c)
        /\ normalize(x, a, a) = x

\* Pairs of an intermediate currency and a target currency.
ConversionPaths ==
    { << "USD", "JPY" >>, << "JPY", "CNY" >>, << "CNY", "USD" >> }

C20_RecordPayment ==
    [][last'.op = "recordPayment" =>
         LET newTx == transactions'[1]
         IN  /\ Len(transactions') = Len(transactions) + 1
             /\ \A j \in 1..Len(transactions) :
                   transactions'[j + 1] = transactions[j]
             /\ newTx.type = "EXPENSE"
             /\ newTx.tags = << "Recurring" >>
             /\ newTx.date = now
             /\ newTx.status = "COMPLETED"
             /\ \E r \in 1..Len(recurringRules) :
                   /\ newTx.amount = recurringRules[r].amount
                   /\ newTx.currency = recurringRules[r].currency
                   /\ newTx.category = recurringRules[r].category
                   /\ newTx.accountId = recurringRules[r].accountId
                   /\ Len(accounts') = Len(accounts)
                   /\ \A i \in 1..Len(accounts) :
                         accounts'[i] =
                            IF accounts[i].id = recurringRules[r].accountId
                            THEN [accounts[i] EXCEPT !.balance =
                                     RSub(@, recurringRules[r].amount)]
                            ELSE accounts[i]
             /\ recurringRules' = recurringRules]_vars

\* The payment of the rule added by hand (30, Housing) was recorded after
\* one of the insurance rule: the wallet went from 500 to 0 to -30.
C20_Witness ==
    /\ last.op = "recordPayment"
    /\ Len(recurringRules) = 2
    /\ Len(transactions) = 2
    /\ transactions[1].category = "Housing"
    /\ transactions[1].amount = Num(30)
    /\ transactions[1].isRecurring
    /\ transactions[2].category = "Insurance"
    /\ accounts[1].balance = Num(-30)
    /\ recurringRules[2].nextDueDate = now

\* C15: a failed advice gateway call surfaces an error string and leaves the
\* rest of the state as it was: the collections, the date of the last
\* generated advice and with it the staleness flag.
C15_FailedAdviceKeepsState ==
    [][last'.op = "adviceFailed" =>
         /\ advice' = "Service unavailable."
         /\ UNCHANGED ledgerVars
         /\ lastAdviceDate' = lastAdviceDate
         /\ shouldShowAdviceReminder(lastAdviceDate', now') =
               shouldShowAdviceReminder(lastAdviceDate, now)]_vars

\* C16: on a gateway or parse failure processInvestmentChat yields the error
\* text and no holdings, and the response step leaves every account and the
\* selected account as they were; holdings and last-check-in of an account
\* change in no step other than the response of a call that succeeded and
\* was parsed with a holdings list.
C16_HoldingsOnlyOnSuccess ==
    /\ [](\A reply \in ChatReplies :
             reply.kind \in {"noKey", "networkError", "noText", "notJson"} =>
                /\ processInvestmentChat(reply).text =
                      "Error processing investment data. Please try again."
                /\ processInvestmentChat(reply).updatedHoldings = << >>)
    /\ [][last'.op \in {"chatFailed", "chatTextOnly"} =>
             /\ accounts' = accounts
             /\ selectedInvestmentAccount' = selectedInvestmentAccount]_vars
    /\ [][last'.op = "chatFailed" /\ chatCalls[last'.i].live =>
             messages' =
                Append(messages,
                       [role |-> "ai",
                        content |-> "Error processing investment data. "
                                    \o "Please try again."])]_vars
    /\ [][(\E i \in 1..Len(accounts) :
              /\ i <= Len(accounts')
              /\ \/ accounts'[i].holdings # accounts[i].holdings
                 \/ accounts'[i].lastCheckIn # accounts[i].lastCheckIn)
             => last'.op = "chatUpdated"]_vars

\* A call failed while the chat was open on the fund account: the error text
\* is the last message and the fund still has its two holdings and 15200.
C16_Witness ==
    /\ last.op = "chatFailed"
    /\ selectedInvestmentAccount # << >>
    /\ messages[Len(messages)].content =
          "Error processing investment data. Please try again."
    /\ accounts[2].balance = Num(15200)
    /\ Len(accounts[2].holdings[1]) = 2
    /\ selectedInvestmentAccount[1] = accounts[2]

\* C17: while a call of a gateway is outstanding its loading indicator is on,
\* and it is off when none is outstanding: loadingAdvice for the advice
\* call, isLoading of the mounted chat for the calls it has made.
C17_LoadingWhileOutstanding ==
    /\ loadingAdvice <=> adviceCalls > 0
    /\ selectedInvestmentAccount # << >> =>
          (isLoading <=> \E k \in 1..Len(chatCalls) : chatCalls[k].live)

\* C18: no step removes an account id from the collection.
C18_AccountsNeverRemoved ==
    [][{accounts[i].id : i \in 1..Len(accounts)} \subseteq
       {accounts'[i].id : i \in 1..Len(accounts')}]_vars

\* C19: a successful holdings update sets the balance of the account of the
\* call to the sum of the amounts of the new holdings and its last check-in
\* to the current time, its holdings being the list received, and changes no
\* other account.
C19_HoldingsUpdate ==
    [][last'.op = "chatUpdated" =>
         LET id == chatCalls[last'.i].account.id
         IN  /\ Len(accounts') = Len(accounts)
             /\ \A i \in 1..Len(accounts) :
                   IF accounts[i].id = id
                   THEN /\ accounts'[i].holdings # << >>
                        /\ accounts'[i].holdings[1] \in HoldingsReplies
                        /\ accounts'[i].balance =
                              SumValues(
                                 [h \in 1..Len(accounts'[i].holdings[1]) |->
                                     accounts'[i].holdings[1][h].amount],
                                 1..Len(accounts'[i].holdings[1]))
                        /\ accounts'[i].lastCheckIn = now
                        /\ [accounts'[i] EXCEPT
                               !.holdings = accounts[i].holdings,
                               !.balance = accounts[i].balance,
                               !.lastCheckIn = accounts[i].lastCheckIn]
                              = accounts[i]
                   ELSE accounts'[i] = accounts[i]]_vars

\* C23: no step removes a transaction; a step that adds one puts it at the
\* head; every transaction there was before the step is the same after it,
\* or was PENDING and is COMPLETED with nothing but its status and its date
\* changed. So no status goes from COMPLETED back to PENDING.
C23_TransactionsImmutable ==
    [][/\ Len(transactions') - Len(transactions) \in {0, 1}
       /\ \A j \in 1..Len(transactions) :
             LET old == transactions[j]
                 new == transactions'[j + Len(transactions')
                                        - Len(transactions)]
             IN  \/ new = old
                 \/ /\ old.status = "PENDING"
                    /\ new = [old EXCEPT !.status = "COMPLETED",
                                         !.date = new.date]]_vars

\* C24: the staleness flag the Dashboard shows is true exactly when no
\* advice was generated in the session or the date of the last one is more
\* than 7 days before now; at 7 days it is false.
C24_AdviceStaleness ==
    shouldShowAdviceReminderMemo <=>
       \/ lastAdviceDate = NoDate
       \/ now - lastAdviceDate > 7 * TicksPerDay

\* C25: a completed TRANSFER between two distinct accounts of the collection
\* leaves net worth as it was, in every reporting currency.
C25_TransferKeepsNetWorth ==
    [][(/\ last'.op = "create"
        /\ transactions'[1].type = "TRANSFER"
        /\ transactions'[1].accountId # transactions'[1].toAccountId
        /\ \E i, j \in 1..Len(accounts) :
              /\ accounts[i].id = transactions'[1].accountId
              /\ accounts[j].id = transactions'[1].toAccountId)
         => \A base \in ReportCurrencies :
               totalNetWorth(accounts', base) =
                  totalNetWorth(accounts, base)]_vars

\* C26: the step that applies a holdings update keeps every account other
\* than the account of the call as it is in the collection at that moment,
\* whatever was done to the collection since the message was sent.
C26_UpdateKeepsLaterChanges ==
    [][last'.op = "chatUpdated" =>
         \A i \in 1..Len(accounts) :
            accounts[i].id # chatCalls[last'.i].account.id =>
               /\ i <= Len(accounts')
               /\ accounts'[i] = accounts[i]]_vars

\* C30: the balance of every INVESTMENT account that has a holdings list is
\* the sum of the amounts of its holdings.
C30_BalanceIsSumOfHoldings ==
    \A i \in 1..Len(accounts) :
        (accounts[i].type = "INVESTMENT" /\ accounts[i].holdings # << >>) =>
           accounts[i].balance =
              SumValues([h \in 1..Len(accounts[i].holdings[1]) |->
                            accounts[i].holdings[1][h].amount],
                        1..Len(accounts[i].holdings[1]))

\* The two messages a send without an API key leaves in the chat.
NoKeyExchange ==
    << [role |-> "user", content |-> "msg"],
       [role |-> "ai",
        content |-> "Error processing investment data. Please try again."] >>

\* C21: in a build without the API key no request is ever sent to a gateway
\* and no call is ever outstanding or loading; a chat message is answered in
\* the same step by the error text, once, with no holdings, so that no
\* account changes; an advice request is answered in the same step by
\* "Service unavailable." and changes none of the collections.
C21_MissingKey ==
    /\ [](/\ getFinancialAdvice("noKey") = "Service unavailable."
          /\ processInvestmentChat([kind |-> "noKey", holdings |-> << >>])
                = [text |-> "Error processing investment data. "
                            \o "Please try again.",
                   updatedHoldings |-> << >>])
    /\ [](~apiKey =>
            /\ gatewayRequests = 0
            /\ chatCalls = << >>
            /\ adviceCalls = 0
            /\ ~isLoading
            /\ ~loadingAdvice)
    /\ [][(~apiKey /\ selectedInvestmentAccount # << >>
                   /\ messages' # messages /\ messages' # << >>) =>
             /\ last'.op = "chatNoKey"
             /\ messages' = messages \o NoKeyExchange
             /\ accounts' = accounts
             /\ selectedInvestmentAccount' = selectedInvestmentAccount]_vars
    /\ [][(~apiKey /\ last'.op \in {"generateAdvice", "adviceNoKey"}) =>
             /\ last'.op = "adviceNoKey"
             /\ advice' = "Service unavailable."
             /\ UNCHANGED ledgerVars]_vars

\* Without the key, advice was asked for and then a message sent in the
\* chat of the fund: both got their error text, nothing is outstanding and
\* the fund is as it was.
C21_Witness ==
    /\ ~apiKey
    /\ last.op = "chatNoKey"
    /\ advice = "Service unavailable."
    /\ messages = InitialMessages \o NoKeyExchange
    /\ gatewayRequests = 0
    /\ chatCalls = << >>
    /\ accounts[2].balance = Num(15200)

\* C22: a submit with an email and a password logs the user in: the user's
\* id is the email with every character outside [a-zA-Z0-9] replaced by
\* '_', whatever the name and the password, and the user is the one recorded
\* as current; a submit with an empty email or an empty password starts no
\* session; logout leaves no user and no record; the record is the user of
\* the App at all times.
C22_SessionContract ==
    /\ [](\A email \in Emails, password \in Passwords, name \in Names :
             LET u == authHandleSubmit(email, password, name)
             IN  IF email = << >> \/ password = ""
                 THEN u = << >>
                 ELSE /\ u # << >>
                      /\ u[1].email = email
                      /\ u[1].id = replaceNonAlphaNumeric(email)
                      /\ u[1].id =
                            authHandleSubmit(email, "pw", "")[1].id)
    /\ [](currentUser = user)
    /\ [][last'.op = "login" =>
             /\ user = << >>
             /\ user' # << >>
             /\ user'[1].email # << >>
             /\ user'[1].id = replaceNonAlphaNumeric(user'[1].email)
             /\ currentUser' = user']_vars
    /\ [][last'.op = "loginRefused" =>
             /\ user' = << >>
             /\ currentUser' = << >>]_vars
    /\ [][last'.op = "logout" =>
             /\ user # << >>
             /\ user' = << >>
             /\ currentUser' = << >>]_vars

\* The user a.b@x has logged in again, under the name Ann, after a session
\* that saved a recorded payment: the id is a_b_x as before and the
\* Dashboard shows the payment.
C22_Witness ==
    /\ last.op = "login"
    /\ user # << >>
    /\ user[1].email = << "a", ".", "b", "@", "x" >>
    /\ user[1].id = << "a", "_", "b", "_", "x" >>
    /\ user[1].username = << "Ann" >>
    /\ currentUser = user
    /\ writer[user[1].id] = << user[1].email >>
    /\ Len(transactions) = 1

\* The Dashboard is mounted, no save is pending and the entries of its user
\* in the store are the collections in memory.
Saved ==
    /\ user # << >>
    /\ saveTimers = << >>
    /\ store[user[1].id] = << Snapshot >>

\* C27: whenever a save is pending, a state follows in which the store
\* holds the collections in memory and nothing is pending.
C27_EventuallySaved == (saveTimers # << >>) ~> Saved

\* C28: while a save is pending the sync status is 'syncing'.
C28_SyncingWhilePending == saveTimers # << >> => syncStatus = "syncing"

\* C29: the entries a Dashboard reads when it is mounted were written by a
\* session of the same email or by none, and a save replaces entries that
\* were written by a session of the same email or by none.
C29_UserIsolation ==
    /\ [][last'.op = "login" =>
             writer[user'[1].id] \in {<< >>, << user'[1].email >>}]_vars
    /\ [][last'.op = "save" =>
             writer[user[1].id] \in {<< >>, << user[1].email >>}]_vars

====
